---- MODULE Spec2Model ----
(***************************************************************************)
(* Forex Factory calendar scraper: the acquisition loop of scrape.py       *)
(* (main, wait_and_get_days), the filter / dedup / sort / sanitize stage   *)
(* of pipeline.py and parse.py + sanitize.py, and the timestamp            *)
(* normaliser to_iso.                                                      *)
(***************************************************************************)
EXTENDS Integers, Sequences, FiniteSets, TLC

\* ------------------------------------------------------------------------
\* Bounds of the model
\* ------------------------------------------------------------------------
\* number of month pages built by build_month_pages
NumPages == 2
\* polls of one wait_and_get_days call before its timeout has certainly elapsed
MaxPolls == 2
\* runs of scrape.main over the same OUT_DIR
MaxRuns == 2

VARIABLES
    \* ---- scrape.main -------------------------------------------------
    pc,             \* position of main / wait_and_get_days
    i,              \* index of the month page the for loop is at (1-based)
    file,           \* OUT_DIR: per page, the state and content of days_YYYY_MM.json
    days,           \* main's local `days`
    best,           \* wait_and_get_days' local `best`
    attempt,        \* 0: not extracting, 1: call at line 220, 2: call at line 233
    polls,          \* completed iterations of the polling loop of the current call
    success_count,
    fail_count,
    quits,          \* calls of driver.quit() on the driver of this run
    navs,           \* calls of driver.get() in this run
    exc,            \* "none", or the exception that ended the for loop
    run,            \* number of the current run of main
    \* ---- history of the run (observation only) -----------------------
    op,             \* the capability / file call made by the step just taken
    outcome,        \* per page: "pending", "skipped", "success", "failed"
    eof,            \* the page's input() ended with EOFError
    intAt,          \* position at which this run was interrupted, or "none"
    prevComplete,   \* the previous run ended by exhausting the for loop
    calls,          \* calls of wait_and_get_days made for the page the loop is at
    waits,          \* calls of input() made for the page the loop is at
    polled,         \* what the poll just made evaluated, if the step was a poll
    \* ---- pipeline.py / parse.py / sanitize.py -------------------------
    input,          \* the records flatten_events yields, in order
    keep,           \* KEEP_CURRENCIES and KEEP_IMPACTS
    deduped,        \* `rows` after list(dedup.values())
    table,          \* `rows` of run_pipeline when the DataFrame is built
    parsedCsv,      \* rows of PARSED_CSV as a reader sees them
    cleanCsv,       \* rows of CLEAN_CSV as a reader sees them
    prev,           \* the table of the run before, and how `input` came from it
    \* ---- to_iso -------------------------------------------------------
    isoRaw,         \* the dateline handed to to_iso
    isoPlatform,    \* the C library under datetime.fromtimestamp
    isoRes,         \* to_iso's local `ts` and its return value
    isoPrev         \* the call before: its argument and return value

scrapeVars == <<pc, i, file, days, best, attempt, polls, success_count,
                fail_count, quits, navs, exc, run, op, outcome, eof,
                intAt, prevComplete, calls, waits, polled>>

pipeVars == <<input, keep, deduped, table, parsedCsv, cleanCsv, prev>>

isoVars == <<isoRaw, isoPlatform, isoRes, isoPrev>>

vars == <<scrapeVars, pipeVars, isoVars>>

Pages == 1..NumPages

\* ------------------------------------------------------------------------
\* Values
\* ------------------------------------------------------------------------
\* A day is modelled by its number of events; a days list is a sequence of days.
DaysValues == { <<>>, <<0>>, <<2>>, <<1, 0>> }

\* window.calendarComponentStates as read by JS_READ_CALSTATE: a list of
\* entries {key, days}; an entry is modelled by its days list.
ArrValues ==
    { <<>> } \cup { <<a>> : a \in DaysValues }
             \cup { <<a, b>> : a \in DaysValues, b \in DaysValues }

\* content of a cache file
Absent == [state |-> "absent", days |-> <<>>]
Truncated == [state |-> "truncated", days |-> <<>>]
Complete(d) == [state |-> "complete", days |-> d]

\* what one evaluation of JS_READ_CALSTATE gave: kind is "fault" (the call
\* or json.loads raised), "nothing" (raw falsy or arr empty) or "arr"
NoPoll == [kind |-> "none", arr |-> <<>>]

\* the existence test made on a path that is never written
IsFileWrongPath(u) == FALSE

\* os.path.isfile(out_path)
IsFile(u) == file[u].state # "absent"

\* ------------------------------------------------------------------------
\* Exceptions and the handlers around them
\* ------------------------------------------------------------------------
\* a bare `except:` in place of `except Exception:`
IsExceptionBare(e) == TRUE

\* isinstance(e, Exception): KeyboardInterrupt derives from BaseException only
IsException(e) == e \in {"EOFError", "WebDriverException", "OSError"}

\* try/except Exception of wait_and_get_days encloses execute_script .. return
PollCatches(e) == pc = "poll_exec" /\ IsException(e)

\* try of the manual-retry path: save_screenshot, input, second extraction
InRetryTry ==
    \/ pc \in {"shot", "input"}
    \/ attempt = 2 /\ pc \in {"poll_head", "poll_exec", "poll_sleep"}

\* a manual-retry handler that names the driver's exception only
RetryCatchesDriverOnly(e) == InRetryTry /\ e = "WebDriverException"

\* except EOFError / except Exception of the manual-retry path
RetryCatches(e) == InRetryTry /\ (e = "EOFError" \/ IsException(e))

\* where control resumes when e is raised at the current position
UnwindPc(e) ==
    IF PollCatches(e) THEN "poll_sleep"
    ELSE IF RetryCatches(e) THEN "open"
    ELSE "finally"

\* what ends the for loop when e is raised at the current position: main's
\* except KeyboardInterrupt logs it, anything else leaves main after finally
UnwindExc(e) ==
    IF PollCatches(e) \/ RetryCatches(e) THEN "none" ELSE e

\* e is raised at the current position: the handlers decide where it lands
Raise(e) ==
    /\ pc' = UnwindPc(e)
    /\ exc' = UnwindExc(e)
    /\ attempt' = IF UnwindPc(e) = "poll_sleep" THEN attempt ELSE 0

\* ------------------------------------------------------------------------
\* wait_and_get_days
\* ------------------------------------------------------------------------
\* sort key of an entry: (len(days), sum of len(d.events))
RECURSIVE SumSeq(_)
SumSeq(s) == IF s = <<>> THEN 0 ELSE Head(s) + SumSeq(Tail(s))

KeyLess(a, b) ==
    \/ Len(a) < Len(b)
    \/ Len(a) = Len(b) /\ SumSeq(a) < SumSeq(b)

\* arr[0]["days"] taken without the sort
SortedFirstUnsorted(arr) == arr[1]

\* arr.sort(key=..., reverse=True); arr[0]["days"]: the sort is stable, so
\* the first of the entries with the greatest key comes first
SortedFirst(arr) ==
    LET k == CHOOSE k \in 1..Len(arr) :
                 /\ \A j \in 1..Len(arr) : ~KeyLess(arr[k], arr[j])
                 /\ \A j \in 1..(k - 1) : KeyLess(arr[j], arr[k])
    IN  arr[k]

\* a call site that asks again for as long as the result is empty
ReturnRetryWhileEmpty(v) ==
    /\ days' = v
    /\ pc' = IF v = <<>> THEN "shot" ELSE "open"
    /\ attempt' = 0

\* return of wait_and_get_days to its call site in main
Return(v) ==
    /\ days' = v
    /\ pc' = IF attempt = 1 /\ v = <<>> THEN "shot" ELSE "open"
    /\ attempt' = 0

TimedOut == polls >= 1

\* while time.time() < end_time: the timeout has elapsed
PollTimeout ==
    /\ pc = "poll_head"
    /\ UNCHANGED <<pipeVars, isoVars>>
    /\ TimedOut
    /\ Return(best)
    /\ op' = "none"
    /\ polled' = NoPoll
    /\ UNCHANGED <<calls, waits>>
    /\ UNCHANGED <<i, file, best, polls, success_count, fail_count, quits,
                   navs, exc, run, outcome, eof, prevComplete, intAt>>

\* while time.time() < end_time: still in time, enter the try
PollEnter ==
    /\ pc = "poll_head"
    /\ UNCHANGED <<pipeVars, isoVars>>
    /\ polls < MaxPolls
    /\ pc' = "poll_exec"
    /\ op' = "none"
    /\ polled' = NoPoll
    /\ UNCHANGED <<calls, waits>>
    /\ UNCHANGED <<i, file, days, best, attempt, polls, success_count,
                   fail_count, quits, navs, exc, run, outcome, eof,
                   prevComplete, intAt>>

\* driver.execute_script raises (or json.loads does)
PollFault ==
    /\ pc = "poll_exec"
    /\ UNCHANGED <<pipeVars, isoVars>>
    /\ Raise("WebDriverException")
    /\ op' = "eval"
    /\ polled' = [kind |-> "fault", arr |-> <<>>]
    /\ UNCHANGED <<calls, waits>>
    /\ UNCHANGED <<eof, i, file, days, best, polls, success_count, fail_count,
                   quits, navs, run, outcome, prevComplete, intAt>>

\* raw is falsy, or arr is empty
PollNothing ==
    /\ pc = "poll_exec"
    /\ UNCHANGED <<pipeVars, isoVars>>
    /\ pc' = "poll_sleep"
    /\ op' = "eval"
    /\ polled' = [kind |-> "nothing", arr |-> <<>>]
    /\ UNCHANGED <<calls, waits>>
    /\ UNCHANGED <<i, file, days, best, attempt, polls, success_count,
                   fail_count, quits, navs, exc, run, outcome, eof,
                   prevComplete, intAt>>

\* arr is non-empty: best = arr[0]["days"] after the sort; return it if truthy
PollArr ==
    /\ pc = "poll_exec"
    /\ UNCHANGED <<pipeVars, isoVars>>
    /\ \E arr \in ArrValues \ { <<>> } :
         /\ polled' = [kind |-> "arr", arr |-> arr]
         /\ best' = SortedFirst(arr)
         /\ IF best' # <<>>
              THEN Return(best')
              ELSE /\ pc' = "poll_sleep"
                   /\ UNCHANGED <<days, attempt>>
    /\ op' = "eval"
    /\ UNCHANGED <<calls, waits>>
    /\ UNCHANGED <<i, file, polls, success_count, fail_count, quits, navs,
                   exc, run, outcome, eof, prevComplete, intAt>>

\* time.sleep(poll_interval)
PollSleep ==
    /\ pc = "poll_sleep"
    /\ UNCHANGED <<pipeVars, isoVars>>
    /\ pc' = "poll_head"
    /\ polls' = polls + 1
    /\ op' = "none"
    /\ polled' = NoPoll
    /\ UNCHANGED <<calls, waits>>
    /\ UNCHANGED <<i, file, days, best, attempt, success_count, fail_count,
                   quits, navs, exc, run, outcome, eof, prevComplete, intAt>>

\* ------------------------------------------------------------------------
\* main
\* ------------------------------------------------------------------------
\* if os.path.isfile(out_path): continue
CheckSkip ==
    /\ pc = "check"
    /\ UNCHANGED <<pipeVars, isoVars>>
    /\ i <= NumPages
    /\ IsFile(i)
    /\ i' = i + 1
    /\ outcome' = [outcome EXCEPT ![i] = "skipped"]
    /\ op' = "none"
    /\ polled' = NoPoll
    /\ calls' = 0
    /\ waits' = 0
    /\ eof' = FALSE
    /\ UNCHANGED <<pc, file, days, best, attempt, polls, success_count,
                   fail_count, quits, navs, exc, run, prevComplete, intAt>>

CheckLoad ==
    /\ pc = "check"
    /\ UNCHANGED <<pipeVars, isoVars>>
    /\ i <= NumPages
    /\ ~IsFile(i)
    /\ pc' = "get"
    /\ op' = "none"
    /\ polled' = NoPoll
    /\ calls' = 0
    /\ waits' = 0
    /\ eof' = FALSE
    /\ UNCHANGED <<i, file, days, best, attempt, polls, success_count,
                   fail_count, quits, navs, exc, run, outcome, prevComplete, intAt>>

\* the for loop is exhausted
LoopEnd ==
    /\ pc = "check"
    /\ UNCHANGED <<pipeVars, isoVars>>
    /\ i > NumPages
    /\ pc' = "finally"
    /\ op' = "none"
    /\ polled' = NoPoll
    /\ UNCHANGED <<calls, waits>>
    /\ UNCHANGED <<i, file, days, best, attempt, polls, success_count,
                   fail_count, quits, navs, exc, run, outcome, eof,
                   prevComplete, intAt>>

\* driver.get(mp.url) returns
Navigate ==
    /\ pc = "get"
    /\ UNCHANGED <<pipeVars, isoVars>>
    /\ pc' = "settle"
    /\ navs' = navs + 1
    /\ op' = "get"
    /\ polled' = NoPoll
    /\ UNCHANGED <<calls, waits>>
    /\ UNCHANGED <<i, file, days, best, attempt, polls, success_count,
                   fail_count, quits, exc, run, outcome, eof, prevComplete, intAt>>

\* driver.get(mp.url) raises
NavigateFault ==
    /\ pc = "get"
    /\ UNCHANGED <<pipeVars, isoVars>>
    /\ Raise("WebDriverException")
    /\ navs' = navs + 1
    /\ op' = "get"
    /\ polled' = NoPoll
    /\ UNCHANGED <<calls, waits>>
    /\ UNCHANGED <<eof, i, file, days, best, polls, success_count, fail_count,
                   quits, run, outcome, prevComplete, intAt>>

\* time.sleep(POST_LOAD_DELAY); days = wait_and_get_days(driver) is entered
Settle ==
    /\ pc = "settle"
    /\ UNCHANGED <<pipeVars, isoVars>>
    /\ pc' = "poll_head"
    /\ attempt' = 1
    /\ polls' = 0
    /\ best' = <<>>
    /\ op' = "none"
    /\ polled' = NoPoll
    /\ calls' = calls + 1
    /\ waits' = waits
    /\ UNCHANGED <<i, file, days, success_count, fail_count, quits, navs,
                   exc, run, outcome, eof, prevComplete, intAt>>

\* driver.save_screenshot(screenshot_path) returns
Screenshot ==
    /\ pc = "shot"
    /\ UNCHANGED <<pipeVars, isoVars>>
    /\ pc' = "input"
    /\ op' = "shot"
    /\ polled' = NoPoll
    /\ waits' = waits + 1
    /\ calls' = calls
    /\ UNCHANGED <<i, file, days, best, attempt, polls, success_count,
                   fail_count, quits, navs, exc, run, outcome, eof,
                   prevComplete, intAt>>

\* driver.save_screenshot(screenshot_path) raises
ScreenshotFault ==
    /\ pc = "shot"
    /\ UNCHANGED <<pipeVars, isoVars>>
    /\ Raise("WebDriverException")
    /\ op' = "shot"
    /\ polled' = NoPoll
    /\ UNCHANGED <<calls, waits>>
    /\ UNCHANGED <<eof, i, file, days, best, polls, success_count, fail_count,
                   quits, navs, run, outcome, prevComplete, intAt>>

\* input(...) returns: wait_and_get_days(driver, timeout_sec=WAIT_SECS) is entered
InputEnter ==
    /\ pc = "input"
    /\ UNCHANGED <<pipeVars, isoVars>>
    /\ pc' = "poll_head"
    /\ attempt' = 2
    /\ polls' = 0
    /\ best' = <<>>
    /\ op' = "none"
    /\ polled' = NoPoll
    /\ calls' = calls + 1
    /\ waits' = waits
    /\ UNCHANGED <<i, file, days, success_count, fail_count, quits, navs,
                   exc, run, outcome, eof, prevComplete, intAt>>

\* input(...) raises EOFError
InputEOF ==
    /\ pc = "input"
    /\ UNCHANGED <<pipeVars, isoVars>>
    /\ Raise("EOFError")
    /\ eof' = TRUE
    /\ op' = "none"
    /\ polled' = NoPoll
    /\ UNCHANGED <<calls, waits>>
    /\ UNCHANGED <<i, file, days, best, polls, success_count, fail_count,
                   quits, navs, run, outcome, prevComplete, intAt>>

\* open(out_path, "w") returns: the file exists and is empty
OpenFile ==
    /\ pc = "open"
    /\ UNCHANGED <<pipeVars, isoVars>>
    /\ file' = [file EXCEPT ![i] = Truncated]
    /\ pc' = "dump"
    /\ op' = "open"
    /\ polled' = NoPoll
    /\ UNCHANGED <<calls, waits>>
    /\ UNCHANGED <<i, days, best, attempt, polls, success_count, fail_count,
                   quits, navs, exc, run, outcome, eof, prevComplete, intAt>>

\* open(out_path, "w") raises
OpenFault ==
    /\ pc = "open"
    /\ UNCHANGED <<pipeVars, isoVars>>
    /\ Raise("OSError")
    /\ op' = "open"
    /\ polled' = NoPoll
    /\ UNCHANGED <<calls, waits>>
    /\ UNCHANGED <<eof, i, file, days, best, polls, success_count, fail_count,
                   quits, navs, run, outcome, prevComplete, intAt>>

\* json.dump(days, f, ...) and the close of the with block
Dump ==
    /\ pc = "dump"
    /\ UNCHANGED <<pipeVars, isoVars>>
    /\ file' = [file EXCEPT ![i] = Complete(days)]
    /\ pc' = "count"
    /\ op' = "dump"
    /\ polled' = NoPoll
    /\ UNCHANGED <<calls, waits>>
    /\ UNCHANGED <<i, days, best, attempt, polls, success_count, fail_count,
                   quits, navs, exc, run, outcome, eof, prevComplete, intAt>>

\* json.dump raises part way
DumpFault ==
    /\ pc = "dump"
    /\ UNCHANGED <<pipeVars, isoVars>>
    /\ Raise("OSError")
    /\ op' = "dump"
    /\ polled' = NoPoll
    /\ UNCHANGED <<calls, waits>>
    /\ UNCHANGED <<eof, i, file, days, best, polls, success_count, fail_count,
                   quits, navs, run, outcome, prevComplete, intAt>>

\* if days: success_count += 1 else: fail_count += 1
Count ==
    /\ pc = "count"
    /\ UNCHANGED <<pipeVars, isoVars>>
    /\ IF days # <<>>
         THEN /\ success_count' = success_count + 1
              /\ fail_count' = fail_count
              /\ outcome' = [outcome EXCEPT ![i] = "success"]
         ELSE /\ fail_count' = fail_count + 1
              /\ success_count' = success_count
              /\ outcome' = [outcome EXCEPT ![i] = "failed"]
    /\ pc' = "pace"
    /\ op' = "none"
    /\ polled' = NoPoll
    /\ UNCHANGED <<calls, waits>>
    /\ UNCHANGED <<i, file, days, best, attempt, polls, quits, navs, exc,
                   run, eof, prevComplete, intAt>>

\* time.sleep(BETWEEN_PAGES_DELAY); next iteration
Pace ==
    /\ pc = "pace"
    /\ UNCHANGED <<pipeVars, isoVars>>
    /\ i' = i + 1
    /\ pc' = "check"
    /\ op' = "none"
    /\ polled' = NoPoll
    /\ UNCHANGED <<calls, waits>>
    /\ UNCHANGED <<file, days, best, attempt, polls, success_count,
                   fail_count, quits, navs, exc, run, outcome, eof,
                   prevComplete, intAt>>

\* positions inside the try block of main
TryPcs == {"check", "get", "settle", "poll_head", "poll_exec", "poll_sleep",
           "shot", "input", "open", "dump", "count", "pace"}

\* the four suspension points: the three sleeps and input()
SuspensionPcs == {"settle", "poll_sleep", "pace", "input"}

\* KeyboardInterrupt is raised in the main thread inside the try block
Interrupt ==
    /\ pc \in TryPcs
    /\ UNCHANGED <<pipeVars, isoVars>>
    /\ Raise("KeyboardInterrupt")
    /\ intAt' = pc
    /\ op' = "none"
    /\ polled' = NoPoll
    /\ UNCHANGED <<calls, waits>>
    /\ UNCHANGED <<i, file, days, best, polls, success_count, fail_count,
                   quits, navs, run, outcome, eof, prevComplete>>

\* driver.quit() as the last statement of the try block instead of in finally
FinallyQuitInTry ==
    /\ pc = "finally"
    /\ UNCHANGED <<pipeVars, isoVars>>
    /\ quits' = IF exc = "none" THEN quits + 1 ELSE quits
    /\ pc' = "exit"
    /\ op' = IF exc = "none" THEN "quit" ELSE "none"
    /\ polled' = NoPoll
    /\ UNCHANGED <<calls, waits>>
    /\ UNCHANGED <<i, file, days, best, attempt, polls, success_count,
                   fail_count, navs, exc, run, outcome, eof, prevComplete,
                   intAt>>

\* except KeyboardInterrupt (when it matches) and finally: driver.quit()
Finally ==
    /\ pc = "finally"
    /\ UNCHANGED <<pipeVars, isoVars>>
    /\ quits' = quits + 1
    /\ pc' = "exit"
    /\ op' = "quit"
    /\ polled' = NoPoll
    /\ UNCHANGED <<calls, waits>>
    /\ UNCHANGED <<i, file, days, best, attempt, polls, success_count,
                   fail_count, navs, exc, run, outcome, eof, prevComplete, intAt>>

\* state of main at `try:` of a run: build_driver() has returned
RunStart ==
    /\ pc = "check"
    /\ i = 1
    /\ days = <<>>
    /\ best = <<>>
    /\ attempt = 0
    /\ polls = 0
    /\ success_count = 0
    /\ fail_count = 0
    /\ quits = 0
    /\ navs = 0
    /\ exc = "none"
    /\ op = "none"
    /\ outcome = [u \in Pages |-> "pending"]
    /\ eof = FALSE
    /\ intAt = "none"
    /\ calls = 0
    /\ waits = 0
    /\ polled = NoPoll

\* main is started again over the same OUT_DIR
Rerun ==
    /\ pc = "exit"
    /\ UNCHANGED <<pipeVars, isoVars>>
    /\ run < MaxRuns
    /\ run' = run + 1
    /\ prevComplete' = (exc = "none")
    /\ pc' = "check"
    /\ i' = 1
    /\ days' = <<>>
    /\ best' = <<>>
    /\ attempt' = 0
    /\ polls' = 0
    /\ success_count' = 0
    /\ fail_count' = 0
    /\ quits' = 0
    /\ navs' = 0
    /\ exc' = "none"
    /\ op' = "none"
    /\ polled' = NoPoll
    /\ calls' = 0
    /\ waits' = 0
    /\ outcome' = [u \in Pages |-> "pending"]
    /\ eof' = FALSE
    /\ intAt' = "none"
    /\ UNCHANGED file

\* ========================================================================
\* pipeline.py: filter, de-duplicate, sort, sanitize
\* ========================================================================
\* records fed to one run of the stage
MaxRows == 3

\* A str is the sequence of its code points.
Lower(c) == IF c >= 65 /\ c <= 90 THEN c + 32 ELSE c

\* str.lower()
LowerStr(t) == [k \in 1..Len(t) |-> Lower(t[k])]

\* needle in hay
Contains(hay, needle) ==
    \E k \in 0..(Len(hay) - Len(needle)) :
        SubSeq(hay, k + 1, k + Len(needle)) = needle

\* a < b for str: code point order, a proper prefix first
RECURSIVE StrLess(_, _)
StrLess(a, b) ==
    IF b = <<>> THEN FALSE
    ELSE IF a = <<>> THEN TRUE
    ELSE IF Head(a) # Head(b) THEN Head(a) < Head(b)
    ELSE StrLess(Tail(a), Tail(b))

\* "speaks"
SpeaksStr == <<115, 112, 101, 97, 107, 115>>
\* "CPI"
TitleCpi == <<67, 80, 73>>
\* "GDP"
TitleGdp == <<71, 68, 80>>
\* "Fed Speaks"
TitleFedSpeaks == <<70, 101, 100, 32, 83, 112, 101, 97, 107, 115>>
\* "2023-11-14" and "22:13:20"
DateA == <<50, 48, 50, 51, 45, 49, 49, 45, 49, 52>>
TimeA == <<50, 50, 58, 49, 51, 58, 50, 48>>

\* ev.get("id", ""): a JSON string or a JSON number
IdStr(t) == [kind |-> "str", n |-> 0, s |-> t]
IdInt(m) == [kind |-> "int", n |-> m, s |-> <<>>]
IdMissing == IdStr(<<>>)

\* truth value of r["id"]
Truthy(x) == IF x.kind = "int" THEN x.n # 0 ELSE x.s # <<>>

\* the records flatten_events can yield (a pool that holds records sharing an
\* id key, sharing a positional key, tying in the sort, failing each filter,
\* and with an empty date)
FlatRecords ==
    { r \in [date : {<<>>, DateA}, time_utc : {<<>>, TimeA},
             currency : {"USD", "EUR"}, impact : {"high", "holiday", "low"},
             title : {TitleCpi, TitleGdp, TitleFedSpeaks},
             id : {IdMissing, IdInt(7)}] :
        /\ (r.date = <<>>) = (r.time_utc = <<>>)
        /\ r.date = <<>> =>
             (r.currency = "USD" /\ r.impact = "high"
              /\ r.title = TitleCpi /\ r.id = IdMissing)
        /\ r.currency = "EUR" =>
             (r.impact = "high" /\ r.title = TitleCpi /\ r.id = IdMissing)
        /\ r.impact = "holiday" => (r.title = TitleCpi /\ r.id = IdMissing)
        /\ r.title = TitleGdp =>
             (r.date = DateA /\ r.currency = "USD" /\ r.impact = "high"
              /\ r.id = IdMissing)
        /\ r.impact = "low" => (r.title = TitleCpi /\ r.id = IdInt(7)) }

\* the allow-sets: the module's constants, or empty (no filtering)
KeepConfigs ==
    { [currencies |-> {"USD"}, impacts |-> {"high", "holiday"}],
      [currencies |-> {}, impacts |-> {}] }

\* the two `continue` tests of the row loop
PassesFilters(r, k) ==
    /\ ~(k.currencies # {} /\ r.currency \notin k.currencies)
    /\ ~(k.impacts # {} /\ r.impact \notin k.impacts)

\* rows.append(r) for the records that pass
RECURSIVE FilterRows(_, _)
FilterRows(rows, k) ==
    IF rows = <<>> THEN <<>>
    ELSE IF PassesFilters(Head(rows), k)
         THEN <<Head(rows)>> \o FilterRows(Tail(rows), k)
         ELSE FilterRows(Tail(rows), k)

\* key = (id, date, time_utc) if id else (date, time_utc, currency, title)
DedupKey(r) ==
    IF Truthy(r.id) THEN <<r.id, r.date, r.time_utc>>
    ELSE <<r.date, r.time_utc, r.currency, r.title>>

\* dedup.setdefault(key, r): the first record of a key stays
DictSetFirstWins(d, key, r) ==
    IF \E j \in 1..Len(d) : d[j].key = key THEN d
    ELSE Append(d, [key |-> key, val |-> r])

\* dedup[key] = r on a dict, which keeps keys in the order of first insertion
DictSet(d, key, r) ==
    IF \E j \in 1..Len(d) : d[j].key = key
    THEN [j \in 1..Len(d) |->
             IF d[j].key = key THEN [key |-> key, val |-> r] ELSE d[j]]
    ELSE Append(d, [key |-> key, val |-> r])

\* for r in rows: dedup[key] = r
RECURSIVE DedupDict(_, _)
DedupDict(d, rows) ==
    IF rows = <<>> THEN d
    ELSE DedupDict(DictSet(d, DedupKey(Head(rows)), Head(rows)), Tail(rows))

\* rows = list(dedup.values())
DedupPass(rows) ==
    LET d == DedupDict(<<>>, rows) IN [j \in 1..Len(d) |-> d[j].val]

\* a sort key that leaves the title out
SortKeyLessNoTitle(a, b) ==
    \/ StrLess(a.date, b.date)
    \/ a.date = b.date /\ StrLess(a.time_utc, b.time_utc)

\* (a.date, a.time_utc, a.title) < (b.date, b.time_utc, b.title)
SortKeyLess(a, b) ==
    \/ StrLess(a.date, b.date)
    \/ a.date = b.date /\ StrLess(a.time_utc, b.time_utc)
    \/ a.date = b.date /\ a.time_utc = b.time_utc /\ StrLess(a.title, b.title)

\* an insertion that puts r before the records it ties with
RECURSIVE InsertUnstable(_, _)
InsertUnstable(sorted, r) ==
    IF sorted = <<>> THEN <<r>>
    ELSE IF SortKeyLess(Head(sorted), r)
         THEN <<Head(sorted)>> \o InsertUnstable(Tail(sorted), r)
         ELSE <<r>> \o sorted

\* r goes after every record that does not sort after it
RECURSIVE InsertStable(_, _)
InsertStable(sorted, r) ==
    IF sorted = <<>> THEN <<r>>
    ELSE IF SortKeyLess(r, Head(sorted))
         THEN <<r>> \o sorted
         ELSE <<Head(sorted)>> \o InsertStable(Tail(sorted), r)

\* rows.sort(key=...): list.sort is stable
RECURSIVE SortFrom(_, _)
SortFrom(sorted, rows) ==
    IF rows = <<>> THEN sorted
    ELSE SortFrom(InsertStable(sorted, Head(rows)), Tail(rows))

SortRows(rows) == SortFrom(<<>>, rows)

\* should_keep_row / keep_row
ShouldKeepRow(r) == ~Contains(LowerStr(r.title), SpeaksStr)

\* [r for r in rows if should_keep_row(r)]
RECURSIVE SanitizeRows(_)
SanitizeRows(rows) ==
    IF rows = <<>> THEN <<>>
    ELSE IF ShouldKeepRow(Head(rows))
         THEN <<Head(rows)>> \o SanitizeRows(Tail(rows))
         ELSE SanitizeRows(Tail(rows))

\* str(n) for n >= 0
RECURSIVE Decimal(_)
Decimal(m) ==
    IF m < 10 THEN <<48 + m>> ELSE Append(Decimal(m \div 10), 48 + (m % 10))

\* what csv.DictReader gives back for a cell csv.DictWriter wrote
CsvCell(x) == IF x.kind = "int" THEN IdStr(Decimal(x.n)) ELSE x

\* a row written by DictWriter and read by DictReader: every cell is a str
CsvRow(r) == [r EXCEPT !.id = CsvCell(r.id)]

CsvRows(rows) == [j \in 1..Len(rows) |-> CsvRow(rows[j])]

\* the sanitize pass placed before the de-duplication
RunPipelineExcludeFirst(rows, k) ==
    SortRows(DedupPass(SanitizeRows(FilterRows(rows, k))))

\* run_pipeline, up to pd.DataFrame(rows)
RunPipelineRows(rows, k) ==
    SanitizeRows(SortRows(DedupPass(FilterRows(rows, k))))

NotRun == [ran |-> FALSE, rows |-> <<>>]
Ran(rows) == [ran |-> TRUE, rows |-> rows]

\* load_days_files / flatten_events yield one more record
Feed ==
    /\ ~table.ran /\ ~parsedCsv.ran
    /\ prev.kind = "none"
    /\ Len(input) < MaxRows
    /\ \E r \in FlatRecords : input' = Append(input, r)
    /\ UNCHANGED <<keep, deduped, table, parsedCsv, cleanCsv, prev>>
    /\ UNCHANGED <<scrapeVars, isoVars>>

\* python pipeline.py
RunPipeline ==
    /\ ~table.ran
    /\ deduped' = Ran(DedupPass(FilterRows(input, keep)))
    /\ table' = Ran(RunPipelineRows(input, keep))
    /\ UNCHANGED <<input, keep, parsedCsv, cleanCsv, prev>>
    /\ UNCHANGED <<scrapeVars, isoVars>>

\* python pipeline.py --step parse (and parse.py)
ParseJsonToCsv ==
    /\ ~parsedCsv.ran
    /\ prev.kind = "none"
    /\ deduped' = Ran(DedupPass(FilterRows(input, keep)))
    /\ parsedCsv' = Ran(CsvRows(SortRows(DedupPass(FilterRows(input, keep)))))
    /\ UNCHANGED <<input, keep, table, cleanCsv, prev>>
    /\ UNCHANGED <<scrapeVars, isoVars>>

\* python pipeline.py --step sanitize (and sanitize.py)
SanitizeCsv ==
    /\ parsedCsv.ran
    /\ ~cleanCsv.ran
    /\ cleanCsv' = Ran(CsvRows(SanitizeRows(parsedCsv.rows)))
    /\ UNCHANGED <<input, keep, deduped, table, parsedCsv, prev>>
    /\ UNCHANGED <<scrapeVars, isoVars>>

\* the stage is run again on the table it produced
Refeed ==
    /\ table.ran
    /\ prev.kind = "none"
    /\ input' = table.rows
    /\ prev' = [kind |-> "refeed", rows |-> table.rows]
    /\ deduped' = NotRun
    /\ table' = NotRun
    /\ parsedCsv' = NotRun
    /\ cleanCsv' = NotRun
    /\ UNCHANGED keep
    /\ UNCHANGED <<scrapeVars, isoVars>>

\* the stage is run again on the same records in another order of arrival
Permute ==
    /\ table.ran
    /\ prev.kind = "none"
    /\ \E f \in Permutations(1..Len(input)) :
         input' = [j \in 1..Len(input) |-> input[f[j]]]
    /\ prev' = [kind |-> "permute", rows |-> table.rows]
    /\ deduped' = NotRun
    /\ table' = NotRun
    /\ parsedCsv' = NotRun
    /\ cleanCsv' = NotRun
    /\ UNCHANGED keep
    /\ UNCHANGED <<scrapeVars, isoVars>>

\* no record fed, nothing run
PipeIdle ==
    /\ input = <<>>
    /\ keep = [currencies |-> {"USD"}, impacts |-> {"high", "holiday"}]
    /\ deduped = NotRun
    /\ table = NotRun
    /\ parsedCsv = NotRun
    /\ cleanCsv = NotRun
    /\ prev = [kind |-> "none", rows |-> <<>>]

PipeInit ==
    /\ RunStart
    /\ run = 1
    /\ prevComplete = FALSE
    /\ file = [u \in Pages |-> Absent]
    /\ input = <<>>
    /\ keep \in KeepConfigs
    /\ deduped = NotRun
    /\ table = NotRun
    /\ parsedCsv = NotRun
    /\ cleanCsv = NotRun
    /\ prev = [kind |-> "none", rows |-> <<>>]
    /\ isoRaw = [kind |-> "none", d |-> 0, s |-> 0]
    /\ isoPlatform = "gmtime"
    /\ isoRes = [done |-> FALSE, ts |-> [kind |-> "none", d |-> 0, s |-> 0],
                 out |-> <<<<>>, <<>>>>]
    /\ isoPrev = [set |-> FALSE, raw |-> [kind |-> "none", d |-> 0, s |-> 0],
                  out |-> <<<<>>, <<>>>>]

PipeNext ==
    \/ Feed \/ RunPipeline \/ ParseJsonToCsv \/ SanitizeCsv
    \/ Refeed \/ Permute

PipeSpec == PipeInit /\ [][PipeNext]_vars

\* ========================================================================
\* to_iso (pipeline.py and parse.py)
\* ========================================================================
\* An epoch value v is held as the pair (d, s) with v = d * 86400 + s and
\* 0 <= s < 86400: values up to 10^13 do not fit a 32-bit integer.
Num(d, s) == [kind |-> "int", d |-> d, s |-> s]
NoneVal == [kind |-> "none", d |-> 0, s |-> 0]

\* -v
Neg(v) == IF v.s = 0 THEN Num(0 - v.d, 0) ELSE Num(0 - v.d - 1, 86400 - v.s)

\* 1000 * v
Mul1000(v) == Num(1000 * v.d + ((1000 * v.s) \div 86400), (1000 * v.s) % 86400)

\* a < b
NumLess(a, b) == a.d < b.d \/ (a.d = b.d /\ a.s < b.s)

\* 10_000_000 = 115 * 86400 + 64000
TenMillion == Num(115, 64000)

\* 10_000_000_000 = 115740 * 86400 + 64000
TenBillion == Num(115740, 64000)

\* not dt_epoch
Falsy(raw) == raw.kind = "none" \/ (raw.d = 0 /\ raw.s = 0)

\* ts / 1000.0, to the whole second below (the fraction is in milliseconds
\* and date() and strftime("%H:%M:%S") drop it)
Div1000(v) ==
    Num(v.d \div 1000, (((v.d % 1000) * 86400) + v.s) \div 1000)

\* ts = float(dt_epoch); if ts > 10_000_000_000: ts = ts / 1000.0
ToIsoTs(raw) == IF NumLess(TenBillion, raw) THEN Div1000(raw) ELSE raw

\* datetime.fromtimestamp(ts, tz=timezone.utc) returns: the year is in
\* 1..9999, and the C library's gmtime takes the value (it refuses a negative
\* one where time_t is handled by gmtime_s)
FromTimestampOk(ts, platform) ==
    /\ ts.d >= -719162
    /\ ts.d <= 2932896
    /\ platform = "gmtime_s" => ts.d >= 0

\* a non-negative number in decimal, zero-padded to `width` digits
RECURSIVE Padded(_, _)
Padded(m, width) ==
    IF width = 0 THEN <<>>
    ELSE Append(Padded(m \div 10, width - 1), 48 + (m % 10))

\* the civil date (year, month, day) of day d of the epoch
CivilFromDays(d) ==
    LET z == d + 719468
        era == z \div 146097
        doe == z - era * 146097
        yoe == (doe - (doe \div 1460) + (doe \div 36524) - (doe \div 146096))
                 \div 365
        doy == doe - (365 * yoe + (yoe \div 4) - (yoe \div 100))
        mp == (5 * doy + 2) \div 153
        day == doy - ((153 * mp + 2) \div 5) + 1
        month == IF mp < 10 THEN mp + 3 ELSE mp - 9
        year == yoe + era * 400 + (IF month <= 2 THEN 1 ELSE 0)
    IN  <<year, month, day>>

\* dt.date().isoformat(): YYYY-MM-DD
IsoFormat(d) ==
    LET c == CivilFromDays(d)
    IN  Padded(c[1], 4) \o <<45>> \o Padded(c[2], 2) \o <<45>> \o Padded(c[3], 2)

\* dt.strftime("%H:%M:%S")
Strftime(s) ==
    Padded(s \div 3600, 2) \o <<58>> \o Padded((s % 3600) \div 60, 2)
        \o <<58>> \o Padded(s % 60, 2)

\* to_iso(dt_epoch)
ToIso(raw, platform) ==
    IF Falsy(raw) THEN <<<<>>, <<>>>>
    ELSE IF ~FromTimestampOk(ToIsoTs(raw), platform) THEN <<<<>>, <<>>>>
    ELSE <<IsoFormat(ToIsoTs(raw).d), Strftime(ToIsoTs(raw).s)>>

\* the datelines tried: around 10^7 and 10^10, Scenario A's 1700000000,
\* small values, both signs, and an absent dateline
IsoInputs ==
    LET pos == { Num(d, s) : d \in {0, 115, 19675, 115740, 115741},
                             s \in {0, 1, 64000, 64001, 80000} }
    IN  pos \cup { Neg(v) : v \in pos } \cup { NoneVal }

IsoNotRun == [done |-> FALSE, ts |-> NoneVal, out |-> <<<<>>, <<>>>>]

\* flatten_events calls to_iso(dateline)
ToIsoCall ==
    /\ ~isoRes.done
    /\ isoRes' = [done |-> TRUE,
                  ts |-> IF Falsy(isoRaw) THEN NoneVal ELSE ToIsoTs(isoRaw),
                  out |-> ToIso(isoRaw, isoPlatform)]
    /\ UNCHANGED <<isoRaw, isoPlatform, isoPrev>>
    /\ UNCHANGED <<scrapeVars, pipeVars>>

\* the same instant arrives again, in milliseconds
ThenMillis ==
    /\ isoRes.done
    /\ ~isoPrev.set
    /\ isoRaw.kind = "int"
    /\ isoPrev' = [set |-> TRUE, raw |-> isoRaw, out |-> isoRes.out]
    /\ isoRaw' = Mul1000(isoRaw)
    /\ isoRes' = IsoNotRun
    /\ UNCHANGED isoPlatform
    /\ UNCHANGED <<scrapeVars, pipeVars>>

IsoIdle ==
    /\ isoRaw = NoneVal
    /\ isoPlatform = "gmtime"
    /\ isoRes = IsoNotRun
    /\ isoPrev = [set |-> FALSE, raw |-> NoneVal, out |-> <<<<>>, <<>>>>]

IsoInit ==
    /\ RunStart
    /\ run = 1
    /\ prevComplete = FALSE
    /\ file = [u \in Pages |-> Absent]
    /\ PipeIdle
    /\ isoRaw \in IsoInputs
    /\ isoPlatform \in {"gmtime", "gmtime_s"}
    /\ isoRes = IsoNotRun
    /\ isoPrev = [set |-> FALSE, raw |-> NoneVal, out |-> <<<<>>, <<>>>>]

IsoNext == ToIsoCall \/ ThenMillis

IsoSpec == IsoInit /\ [][IsoNext]_vars

Init ==
    /\ RunStart
    /\ PipeIdle
    /\ IsoIdle
    /\ run = 1
    /\ prevComplete = FALSE
    /\ file \in [Pages -> {Absent} \cup {Complete(d) : d \in {<<>>, <<2>>}}]

Next ==
    \/ CheckSkip \/ CheckLoad \/ LoopEnd
    \/ Navigate \/ NavigateFault \/ Settle
    \/ PollTimeout \/ PollEnter \/ PollFault \/ PollNothing \/ PollArr
    \/ PollSleep
    \/ Screenshot \/ ScreenshotFault \/ InputEnter \/ InputEOF
    \/ OpenFile \/ OpenFault \/ Dump \/ DumpFault \/ Count \/ Pace
    \/ Interrupt \/ Finally \/ Rerun

Spec == Init /\ [][Next]_vars

\* ------------------------------------------------------------------------
\* Properties of the acquisition loop
\* ------------------------------------------------------------------------
DriverOps == {"get", "eval", "shot"}

\* C1: a page whose cache file exists when the loop reaches it is skipped:
\* the step taken there makes no navigation, evaluation, screenshot or write,
\* leaves the file and both counters unchanged and moves to the next page
\* (or is the interrupt); and a run started after a run that exhausted the
\* loop makes no navigation at all.
C1_SkipExisting ==
    /\ [][ (pc = "check" /\ i <= NumPages /\ file[i].state # "absent") =>
             /\ op' = "none"
             /\ navs' = navs
             /\ file' = file
             /\ success_count' = success_count
             /\ fail_count' = fail_count
             /\ \/ pc' = "check" /\ i' = i + 1
                \/ pc' = "finally" /\ exc' = "KeyboardInterrupt" ]_vars
    /\ [](prevComplete => navs = 0)

\* a second run that skipped every page, over files the first run wrote
C1_Witness ==
    /\ prevComplete
    /\ pc = "exit"
    /\ exc = "none"
    /\ navs = 0
    /\ \A u \in Pages : outcome[u] = "skipped"
    /\ file[1] = Complete(<<1, 0>>)

\* C2: the driver is released exactly once on every exit path (loop
\* exhausted, interrupt, fault of navigation or of the cache write), never
\* twice, only on the way out, and no navigation, evaluation or screenshot is
\* made after the release.
C2_ReleasedOnce ==
    /\ [](quits <= 1)
    /\ [](pc = "exit" => quits = 1)
    /\ [](quits = 1 => pc = "exit")
    /\ [][ quits >= 1 => op' \notin DriverOps ]_vars

\* a run ended by a fault of the cache write, with the driver released
C2_Witness == pc = "exit" /\ quits = 1 /\ exc = "OSError" /\ navs >= 1

\* C3: a navigation fault aborts only its page: every run that ends other
\* than by an interrupt or a cache-write fault has counted each page that was
\* not skipped exactly once, as success or as failure.
C3_NavFaultIsolated ==
    (pc = "exit" /\ exc \notin {"KeyboardInterrupt", "OSError"}) =>
        /\ \A u \in Pages : outcome[u] \in {"skipped", "success", "failed"}
        /\ success_count + fail_count =
             Cardinality({u \in Pages : outcome[u] # "skipped"})

\* C4: when the first extraction is empty and input() ends with end-of-input,
\* no exception escapes, the empty list is what is written to the page's cache
\* file, the failure counter goes up by exactly one, the success counter stays,
\* and the loop moves on to the next page.
C4_EofSavesEmpty ==
    /\ [](eof => exc # "EOFError")
    /\ [](eof /\ pc \in {"open", "dump", "count", "pace"} => days = <<>>)
    /\ [](eof /\ pc \in {"count", "pace"} => file[i] = Complete(<<>>))
    /\ [](eof /\ pc = "pace" => outcome[i] = "failed")
    /\ [][ (pc = "input" /\ eof') => (pc' = "open" /\ exc' = "none") ]_vars
    /\ [][ (eof /\ pc = "count" /\ pc' = "pace") =>
             (fail_count' = fail_count + 1
              /\ success_count' = success_count) ]_vars
    /\ [][ (eof /\ pc = "pace" /\ exc' = "none") =>
             (pc' = "check" /\ i' = i + 1) ]_vars

\* a page whose input() hit end-of-input has been saved empty and counted
C4_Witness ==
    /\ eof
    /\ pc = "pace"
    /\ outcome[i] = "failed"
    /\ file[i] = Complete(<<>>)
    /\ fail_count = 1
    /\ success_count = 0
    /\ exc = "none"

\* C5: an interrupt delivered inside the loop, at a suspension point or
\* elsewhere, is never swallowed by the handlers of the polling loop or of the
\* manual-retry path: it ends the loop at once, and afterwards nothing is
\* navigated, evaluated or written and the counters keep their values.
C5_InterruptAborts ==
    /\ [](intAt # "none" => (pc \in {"finally", "exit"}
                             /\ exc = "KeyboardInterrupt"))
    /\ [][ (intAt # "none" /\ run' = run) =>
             /\ op' \in {"none", "quit"}
             /\ file' = file
             /\ navs' = navs
             /\ success_count' = success_count
             /\ fail_count' = fail_count ]_vars
    /\ [][ (pc \in SuspensionPcs /\ intAt' # "none" /\ intAt = "none") =>
             (pc' = "finally" /\ exc' = "KeyboardInterrupt") ]_vars

\* a run interrupted while it waited in input(), after the release
C5_Witness == intAt = "input" /\ pc = "exit" /\ quits = 1 /\ navs >= 1

\* ------------------------------------------------------------------------
\* Properties of the filter / dedup / sort / sanitize stage
\* ------------------------------------------------------------------------
\* positions of the input records that pass the currency and impact filters
PassingIdx == {k \in 1..Len(input) : PassesFilters(input[k], keep)}

SameKey(a, b) == DedupKey(a) = DedupKey(b)

\* the last passing position that holds the dedup key of position k
LastIdx(k) ==
    CHOOSE m \in PassingIdx :
        /\ SameKey(input[m], input[k])
        /\ \A j \in PassingIdx : SameKey(input[j], input[k]) => j <= m

\* the first passing position that holds the dedup key of record r
FirstIdx(r) ==
    CHOOSE m \in PassingIdx :
        /\ SameKey(input[m], r)
        /\ \A j \in PassingIdx : SameKey(input[j], r) => m <= j

\* the title, lowercased, contains "speaks"
MentionsSpeaks(t) ==
    \E k \in 1..(Len(t) - 5) : \A m \in 1..6 : Lower(t[k + m - 1]) = SpeaksStr[m]

SortTie(a, b) ==
    a.date = b.date /\ a.time_utc = b.time_utc /\ a.title = b.title

\* positions whose record is the last of its key and does not mention speaks
KeptIdx == {k \in PassingIdx : LastIdx(k) = k /\ ~MentionsSpeaks(input[k].title)}

\* C6 (as claimed): the table of run_pipeline is the result of currency
\* filter, impact filter, content exclusion, deduplication and sort in that
\* order, the exclusion before the deduplication.
C6_ExclusionBeforeDedup ==
    table.ran => table.rows = RunPipelineExcludeFirst(input, keep)

\* C6 (amended): the content exclusion comes last. The table holds exactly
\* the records that are the last of their dedup key among the records passing
\* the two filters and that do not mention "speaks"; it is ordered by
\* (date, time_utc, title), ties in the order in which their keys first
\* arrived; and parse followed by sanitize gives the same rows, each cell
\* rendered as CSV text.
C6_ExclusionAfterDedup ==
    /\ table.ran =>
         /\ Len(table.rows) = Cardinality(KeptIdx)
         /\ {table.rows[j] : j \in 1..Len(table.rows)} =
              {input[k] : k \in KeptIdx}
         /\ \A a, b \in 1..Len(table.rows) :
              a < b =>
                /\ ~SortKeyLess(table.rows[b], table.rows[a])
                /\ SortTie(table.rows[a], table.rows[b]) =>
                     FirstIdx(table.rows[a]) < FirstIdx(table.rows[b])
    /\ (table.ran /\ cleanCsv.ran) => cleanCsv.rows = CsvRows(table.rows)

\* a record mentioning speaks overwrote a record of the same key that does
\* not, and both ways of running the stage were taken
C6_Witness ==
    /\ table.ran
    /\ cleanCsv.ran
    /\ Len(input) = 3
    /\ \E a, b \in PassingIdx :
         /\ a < b
         /\ LastIdx(a) = b
         /\ MentionsSpeaks(input[b].title)
         /\ ~MentionsSpeaks(input[a].title)
    /\ table.rows # <<>>
    /\ table.rows # RunPipelineExcludeFirst(input, keep)

\* C7: after the deduplication pass every dedup key of the filtered input
\* is held by exactly one record, the last input record of that key; no two
\* records of the result share a key; and a key built from a non-empty id
\* never equals a key built for an empty id.
C7_LastWriteWins ==
    deduped.ran =>
        /\ \A k \in PassingIdx :
             \E j \in 1..Len(deduped.rows) :
                /\ deduped.rows[j] = input[LastIdx(k)]
                /\ \A m \in 1..Len(deduped.rows) :
                     SameKey(deduped.rows[m], input[k]) => m = j
        /\ \A j \in 1..Len(deduped.rows) :
             \E k \in PassingIdx : deduped.rows[j] = input[k]
        /\ \A a, b \in 1..Len(deduped.rows) :
             a # b => ~SameKey(deduped.rows[a], deduped.rows[b])
        /\ \A a, b \in PassingIdx :
             Truthy(input[a].id) # Truthy(input[b].id) =>
                ~SameKey(input[a], input[b])

\* two different records of one id key went through the pass and the later
\* one is what is left
C7_Witness ==
    /\ deduped.ran
    /\ Len(deduped.rows) = 1
    /\ \E a, b \in PassingIdx :
         /\ a < b
         /\ SameKey(input[a], input[b])
         /\ input[a] # input[b]
         /\ input[b] = deduped.rows[1]
         /\ Truthy(input[a].id)

\* C8: the stage run on its own output gives that output again.
C8_Idempotent ==
    (prev.kind = "refeed" /\ table.ran) => table.rows = prev.rows

\* the second run, on a first output that holds records tying in the sort
C8_Witness ==
    /\ prev.kind = "refeed"
    /\ table.ran
    /\ Len(prev.rows) >= 2
    /\ SortTie(prev.rows[1], prev.rows[2])
    /\ table.rows = prev.rows

NoSharedKey ==
    \A a, b \in 1..Len(input) : a # b => ~SameKey(input[a], input[b])

\* C9 (as claimed): two inputs that are permutations of one another, with
\* no two records sharing a dedup key, give the identical table.
C9_ArrivalOrderIrrelevant ==
    (prev.kind = "permute" /\ table.ran /\ NoSharedKey) =>
        table.rows = prev.rows

\* C9 (amended): ... with no two records sharing a dedup key and no two
\* records that pass the filters tying on (date, time_utc, title), give the
\* identical table.
C9_OrderBySortWhenNoTies ==
    (/\ prev.kind = "permute"
     /\ table.ran
     /\ NoSharedKey
     /\ \A a, b \in PassingIdx : a # b => ~SortTie(input[a], input[b])) =>
        table.rows = prev.rows

\* the second run, on three records of different sort keys in another order
C9_Witness ==
    /\ prev.kind = "permute"
    /\ table.ran
    /\ NoSharedKey
    /\ \A a, b \in PassingIdx : a # b => ~SortTie(input[a], input[b])
    /\ Len(table.rows) = 3
    /\ table.rows = prev.rows
    /\ input # table.rows

\* ------------------------------------------------------------------------
\* Properties of to_iso
\* ------------------------------------------------------------------------
\* |v|
Magnitude(v) == IF v.d < 0 THEN Neg(v) ELSE v

\* C10: to_iso divides the value by 1000 exactly when its magnitude exceeds
\* 10,000,000,000; so for every t with 10,000,000 < |t| <= 10,000,000,000, of
\* either sign, to_iso(1000 * t) returns what to_iso(t) returns.
C10_MagnitudeThreshold ==
    /\ (isoRes.done /\ ~Falsy(isoRaw)) =>
         isoRes.ts = IF NumLess(TenBillion, Magnitude(isoRaw))
                       THEN Div1000(isoRaw) ELSE isoRaw
    /\ (/\ isoRes.done
        /\ isoPrev.set
        /\ NumLess(TenMillion, Magnitude(isoPrev.raw))
        /\ ~NumLess(TenBillion, Magnitude(isoPrev.raw))) =>
         isoRes.out = isoPrev.out

\* Scenario A and D: 1700000000 and 1700000000000 both give
\* ("2023-11-14", "22:13:20")
ScenarioD_SameInstant ==
    (isoRes.done /\ isoRaw \in {Num(19675, 80000), Mul1000(Num(19675, 80000))}) =>
        isoRes.out = <<DateA, TimeA>>

\* ------------------------------------------------------------------------
\* Properties of extraction and of the cache files
\* ------------------------------------------------------------------------
ExtractPcs == {"poll_head", "poll_exec", "poll_sleep"}

RetryPcs == ExtractPcs \cup {"shot", "input"}

\* C11: for one page in one run wait_and_get_days is entered at most twice
\* and input() at most once; the second call is entered only from input()
\* having returned, after a first call that returned the empty list; each
\* call makes at most MaxPolls polls; when the second call returns, what it
\* returns (empty or not) goes to the write, and it is the content of the
\* file once written; and a page that is being extracted leaves extraction
\* only for the write, unless an exception ends the loop.
C11_AtMostTwoAttempts ==
    /\ [](calls <= 2 /\ waits <= 1)
    /\ [][ calls' = calls + 1 /\ calls >= 1 =>
             /\ calls = 1
             /\ waits = 1
             /\ pc = "input"
             /\ days = <<>>
             /\ polls' = 0 ]_vars
    /\ [](polls <= MaxPolls)
    /\ [][ (attempt = 2 /\ attempt' = 0 /\ exc' = "none") =>
             pc' = "open" /\ days' = best' ]_vars
    /\ [](pc \in {"count", "pace"} => file[i] = Complete(days))
    /\ [][ (pc \in RetryPcs /\ exc' = "none") =>
             pc' \in RetryPcs \cup {"open"} ]_vars

\* the second call timed out empty after the human's signal, and the empty
\* list was saved and counted
C11_Witness ==
    /\ calls = 2
    /\ waits = 1
    /\ ~eof
    /\ pc = "pace"
    /\ days = <<>>
    /\ file[i] = Complete(<<>>)
    /\ outcome[i] = "failed"

\* some entry of arr has a non-empty days list
HasDays(arr) == \E k \in 1..Len(arr) : arr[k] # <<>>

\* v is the days list of an entry of arr that no entry exceeds in
\* (number of days, total number of events)
Maximal(v, arr) ==
    /\ \E k \in 1..Len(arr) : arr[k] = v
    /\ \A j \in 1..Len(arr) : ~KeyLess(v, arr[j])

\* C12: a poll whose evaluation gives at least one entry with a non-empty
\* days list returns from wait_and_get_days at once, with the non-empty days
\* list of an entry that is maximal under (number of days, total number of
\* events); a poll that faults, gives nothing or gives only entries with
\* empty days lists returns nothing and goes on to the sleep; a call that
\* ends by its timeout returns the empty list; and no exception other than
\* the interrupt leaves wait_and_get_days.
C12_FirstNonEmptyMaximal ==
    /\ [][ op' = "eval" =>
             /\ pc = "poll_exec"
             /\ IF polled'.kind = "arr" /\ HasDays(polled'.arr)
                  THEN /\ attempt' = 0
                       /\ pc' = "open"
                       /\ exc' = "none"
                       /\ days' # <<>>
                       /\ Maximal(days', polled'.arr)
                  ELSE /\ pc' = "poll_sleep"
                       /\ attempt' = attempt
                       /\ days' = days
                       /\ exc' = "none" ]_vars
    /\ [][ (pc = "poll_head" /\ attempt' = 0 /\ exc' = "none") =>
             /\ days' = <<>>
             /\ pc' = IF attempt = 1 THEN "shot" ELSE "open" ]_vars
    /\ [][ (pc = "poll_head" \/ pc = "poll_exec" \/ pc = "poll_sleep") =>
             (exc' = "none" \/ exc' = "KeyboardInterrupt") ]_vars

\* after one poll that gave nothing to return, a poll evaluated two entries
\* of which the second has more days and fewer events, and returned the second
C12_Witness ==
    /\ polled = [kind |-> "arr", arr |-> << <<2>>, <<1, 0>> >>]
    /\ polls = 1
    /\ pc = "open"
    /\ days = <<1, 0>>

\* C13: every cache file that exists holds a complete JSON array of days,
\* whatever position the loop is at and however the run before ended: the
\* only file that may be incomplete is the one the with block at the current
\* position is writing; so no file is left empty or cut short by an
\* interrupt or a fault, and a page that a run skips is skipped on a
\* complete file.
C13_CacheFilesComplete ==
    \A u \in Pages :
        \/ file[u].state \in {"absent", "complete"}
        \/ u = i /\ pc = "dump"
====
